---- MODULE Spec2Model ----
(***************************************************************************)
(* Model of main.py: W worker processes (WORLD_SIZE) each run main(model): *)
(* epochs of train() / evaluate() / checkpoint selection, a sparse update  *)
(* of the embedding table per batch, and a periodic all-reduce of the      *)
(* dense parameters.                                                       *)
(*                                                                         *)
(* Real numbers are fixed-point integers: the integer x stands for         *)
(* x / Scale.  Products and quotients round toward zero.                   *)
(***************************************************************************)
EXTENDS Integers, Sequences, FiniteSets, TLC

\* ------------------------------------------------------------------ bounds
\* Fixed-point unit: 10000 stands for 1.0.
Scale == 10 ^ 4
\* Components of one embedding row (args.emsize).
EmbDim == 2
\* Longest uncoalesced gradient (touched indices, duplicates included).
MaxTouched == 3
\* Largest args.epochs drawn.
MaxEpochs == 2
\* Largest len(corpus.train) drawn (batches per epoch).
MaxBatches == 2
\* Most interrupts and failed writes in one run, over all workers.
MaxFaults == 1

\* ------------------------------------------------------- program constants
WORLD_SIZE == 2
Workers == 0 .. (WORLD_SIZE - 1)
\* Python's None (best_val_ppl before the first accepted epoch).
None == -1

\* The rows of the embedding table that the modelled batches can touch.
Vocab == {3, 7, 9}
Dims == 1 .. EmbDim

\* ------------------------------------------------------ fixed-point floats
Abs(x) == IF x < 0 THEN -x ELSE x
Sgn(x) == IF x < 0 THEN -1 ELSE 1
\* a * b on fixed-point numbers.
Mul(a, b) == Sgn(a) * Sgn(b) * ((Abs(a) * Abs(b)) \div Scale)
\* a / b where b is a plain positive number (a world size, a decay factor
\* given in fixed point is handled by FDiv).
FDiv(a, b) == Sgn(a) * Sgn(b) * ((Abs(a) * Scale) \div Abs(b))

Vec(c) == [k \in Dims |-> c]
Ramp(c) == [k \in Dims |-> c * k]
VecAdd(u, v) == [k \in Dims |-> u[k] + v[k]]
VecScale(c, v) == [k \in Dims |-> Mul(c, v[k])]
ZeroVec == Vec(0)

\* ------------------------------------------------- sparse embedding update
\* A sparse gradient is a sequence of entries [idx, val]; before coalesce()
\* an index may occur several times.
RECURSIVE SumFor(_, _)
SumFor(g, i) ==
    IF g = << >> THEN ZeroVec
    ELSE LET rest == SumFor(Tail(g), i)
         IN  IF Head(g).idx = i THEN VecAdd(Head(g).val, rest) ELSE rest

Indices(g) == {g[k].idx : k \in DOMAIN g}

RECURSIVE SortedSeq(_)
SortedSeq(S) ==
    IF S = {} THEN << >>
    ELSE LET m == CHOOSE x \in S : \A y \in S : x <= y
         IN  <<m>> \o SortedSeq(S \ {m})

\* A plausible slip: the gradient is used as it comes, duplicates kept.
CoalesceSkipped(g) == g

\* emb_grad = grad.coalesce(): unique ascending indices, values of equal
\* indices summed.
Coalesce(g) ==
    LET s == SortedSeq(Indices(g))
    IN  [k \in DOMAIN s |-> [idx |-> s[k], val |-> SumFor(g, s[k])]]

\* w_d = weight_decay * weight.data[indices]; emb_grad._values().add_(w_d)
AddDecay(g, weight, wd) ==
    [k \in DOMAIN g |->
        [idx |-> g[k].idx, val |-> VecAdd(g[k].val, VecScale(wd, weight[g[k].idx]))]]

\* A plausible slip: the step is applied to the whole table (dense add_).
RECURSIVE IndexAddDense(_, _, _)
IndexAddDense(weight, g, c) ==
    IF g = << >> THEN weight
    ELSE IndexAddDense(
            [i \in DOMAIN weight |-> VecAdd(weight[i], VecScale(c, Head(g).val))],
            Tail(g), c)

\* weight.data.index_add_(0, indices, c * values): entry k is added to row
\* indices[k]; entries with the same index accumulate.
RECURSIVE IndexAdd(_, _, _)
IndexAdd(weight, g, c) ==
    IF g = << >> THEN weight
    ELSE IndexAdd(
            [weight EXCEPT ![Head(g).idx] = VecAdd(@, VecScale(c, Head(g).val))],
            Tail(g), c)

\* ------------------------------------------------------------------- state
VARIABLES
    args,           \* the parsed command line (line 26), one record
    corpus,         \* data.Corpus: train (number of batches), valid, test
    inputs,         \* what the network can yield in this run (sets of values)
    weight,         \* model.encoder.weight.data, in shared memory (line 96)
    files,          \* the checkpoint files, by path
    pc,             \* each worker's position in main()
    epoch,          \* main: the loop variable of line 218
    lr,             \* main: lr
    best_val_ppl,   \* main: best_val_ppl
    r_lr,           \* run_epoch: its parameter lr
    r_best,         \* run_epoch: its parameter best_val_ppl
    val_ppl,        \* run_epoch: val_ppl
    num_batch,      \* train: num_batch
    total_loss,     \* train: total_loss
    loss,           \* train: loss.data[0] of the current batch
    cur_loss,       \* train: cur_loss, the interval's loss as last reported
    acc_losses,     \* the losses added to total_loss since it was last zeroed
    calls,          \* how often main has entered train, each evaluate, line 193
    raw_grad,       \* model.encoder.weight.grad after backward()
    emb_grad,       \* train: emb_grad (coalesced, decay added in place)
    dense,          \* each worker's dense_params, by name
    pidx,           \* train: position of the loop of line 139
    held,           \* what the worker contributed to its last all_reduce
    sync_log,       \* the (epoch, num_batch) places where it called all_reduce
    training,       \* model.training
    nce,            \* model.criterion.nce
    entry_mode,     \* the two flags as they were when evaluate() was entered
    eval_src,       \* evaluate: which stream ("valid" or "test")
    test_ppl,       \* main: test_ppl
    pre_sync,       \* what every worker contributed to its last all_reduce
    saved_best,     \* run_epoch: whether lines 194-195 ran in this call
    interrupted,    \* whether a KeyboardInterrupt was delivered to the worker
    err,            \* the exception that ended the worker, "" if none
    loaded          \* main (evaluate only): the model read by torch.load

cfgVars == <<args, corpus, inputs>>
ctrlVars == <<epoch, lr, best_val_ppl, r_lr, r_best, val_ppl, saved_best>>
trainVars ==
    <<num_batch, total_loss, loss, cur_loss, acc_losses, raw_grad, emb_grad>>
syncVars == <<dense, pidx, held, sync_log, pre_sync>>
modeVars == <<training, nce, entry_mode>>
evalVars == <<eval_src, test_ppl>>
envVars == <<interrupted, err, loaded>>
vars == <<cfgVars, weight, files, pc, ctrlVars, trainVars, syncVars, modeVars,
          evalVars, envVars, calls>>

\* ------------------------------------------------------------------ inputs
\* The dense parameters, in the order of dense_params (line 94).
dense_params == <<"bias", "rnn">>
DenseNames == {dense_params[k] : k \in DOMAIN dense_params}

BestPath == 0
EpochPath(n) == n
Paths == {BestPath} \cup {EpochPath(n) : n \in 1 .. MaxEpochs}

\* A path with no file; and what open(path, 'wb') leaves before torch.save
\* has written the whole model.
NoFile == [state |-> "absent", writer |-> None, epoch |-> 0, ppl |-> None,
           weight |-> << >>, dense |-> << >>, training |-> FALSE, nce |-> FALSE]
Truncated(w, e) == [NoFile EXCEPT !.state = "partial", !.writer = w, !.epoch = e]

\* Gradient vectors and rows the inputs are drawn from.
GradVecs == {Vec(Scale \div 10), Vec(Scale \div 5), Vec(Scale \div 20)}
RowVecs == {Vec(Scale), Ramp(3 * (Scale \div 10))}
GradEntries == [idx : Vocab, val : GradVecs]
RECURSIVE SeqsUpTo(_, _)
SeqsUpTo(S, n) ==
    IF n = 0 THEN {<< >>}
    ELSE LET shorter == SeqsUpTo(S, n - 1)
         IN  shorter \cup {Append(s, x) : s \in {t \in shorter : Len(t) = n - 1}, x \in S}
\* Every uncoalesced gradient of 1 .. MaxTouched entries.
AllGrads == SeqsUpTo(GradEntries, MaxTouched) \ {<< >>}
\* The batch of the worked example: indices 3, 7, 3 with 0.1, 0.2, 0.05.
ExampleGrad ==
    << [idx |-> 3, val |-> Vec(Scale \div 10)],
       [idx |-> 7, val |-> Vec(Scale \div 5)],
       [idx |-> 3, val |-> Vec(Scale \div 20)] >>
\* The gradients a batch of a full run produces.
BatchGrads == {ExampleGrad, << [idx |-> 7, val |-> Vec(Scale \div 10)] >>}
LossVals == {Scale, 3 * Scale}
LrVals == {Scale \div 2, Scale}
WdVals == {0, Scale \div 100}

\* x / n for a plain positive number n.
DivInt(x, n) == Sgn(x) * (Abs(x) \div n)

\* math.exp on fixed-point numbers x >= 0, with base 2 in place of e and
\* linear between whole numbers: strictly increasing, Exp(0) = 1.0.
Exp(x) == (2 ^ (x \div Scale)) * (Scale + (x % Scale))

InitWeight == [i \in Vocab |-> Vec(Scale)]
InitDense == [p \in DenseNames |-> 10 * Scale]
\* What optimizer.step() adds to the dense parameters in one batch.
StepA == [p \in DenseNames |-> IF p = "bias" THEN 10 * Scale ELSE -(2 * Scale)]
StepB == [p \in DenseNames |-> 0]
DenseSteps == {StepA, StepB}
\* A best checkpoint left by an earlier run.
OldBest ==
    [state |-> "complete", writer |-> None, epoch |-> 1, ppl |-> 2 * Scale,
     weight |-> InitWeight, dense |-> InitDense, training |-> FALSE, nce |-> TRUE]

\* What is left of a best checkpoint whose write was cut short.
BrokenBest == [OldBest EXCEPT !.state = "partial", !.weight = << >>, !.dense = << >>]

\* ------------------------------------------------------------ the runs drawn
\* A run is a command line, a corpus, what the network yields and the files
\* found at the start.  lr_decay is an annealing factor, larger than 1.  Runs
\* of several batches are drawn without weight decay; the decay is drawn in
\* the profiling runs and in the single updates of InitUpdate.
BaseArgs ==
    [train |-> TRUE, prof |-> FALSE, nce |-> TRUE, epochs |-> MaxEpochs,
     log_interval |-> 1, lr |-> Scale \div 2, lr_decay |-> 2 * Scale,
     weight_decay |-> 0]
\* A stream is the sequence of its batches' token counts.
BaseCorpus == [train |-> MaxBatches, valid |-> <<2>>, test |-> <<3>>]
NoFiles == [n \in Paths |-> NoFile]
\* The validation losses vary.
ProfileEval ==
    [grads |-> {ExampleGrad}, losses |-> {Scale}, steps |-> {StepA},
     valid_losses |-> LossVals, test_losses |-> {Scale}]
\* The optimizer's steps vary.
ProfileTrain ==
    [grads |-> {ExampleGrad}, losses |-> {Scale}, steps |-> DenseSteps,
     valid_losses |-> {Scale}, test_losses |-> {Scale}]
\* The gradients and the training losses vary.
ProfileBatch ==
    [grads |-> BatchGrads, losses |-> LossVals, steps |-> {StepA},
     valid_losses |-> {Scale}, test_losses |-> {Scale}]

\* The training losses vary.
ProfileLoss ==
    [grads |-> {ExampleGrad}, losses |-> LossVals, steps |-> {StepA},
     valid_losses |-> {Scale}, test_losses |-> {Scale}]

\* Training over MaxEpochs epochs, the selection seeing better, equal and
\* worse validation perplexities.
RunsSelect ==
    {[args |-> BaseArgs, corpus |-> BaseCorpus, inputs |-> ProfileEval,
      files |-> NoFiles]}
\* Training for one epoch with workers whose dense parameters drift apart:
\* without --nce, or with an empty test stream; the validation stream has
\* two batches.
RunsSync ==
    {[args |-> [BaseArgs EXCEPT !.nce = n, !.epochs = 1],
      corpus |-> [BaseCorpus EXCEPT !.valid = <<2, 3>>,
                                    !.test = IF n THEN << >> ELSE <<3>>],
      inputs |-> ProfileTrain, files |-> NoFiles] : n \in BOOLEAN}
\* Training on a corpus whose validation stream is empty.
RunsEmpty ==
    {[args |-> [BaseArgs EXCEPT !.nce = n],
      corpus |-> [BaseCorpus EXCEPT !.valid = << >>],
      inputs |-> ProfileBatch, files |-> NoFiles] : n \in BOOLEAN}
\* Profiling, with weight decay.
RunsProf ==
    {[args |-> [BaseArgs EXCEPT !.prof = TRUE, !.weight_decay = Scale \div 100],
      corpus |-> BaseCorpus, inputs |-> ProfileBatch, files |-> NoFiles]}
\* Evaluation only: the best file is missing, whole or cut short.
RunsEval ==
    {[args |-> [BaseArgs EXCEPT !.train = FALSE],
      corpus |-> [BaseCorpus EXCEPT !.test = t],
      inputs |-> ProfileEval, files |-> [NoFiles EXCEPT ![BestPath] = f]] :
        t \in {<< >>, <<3>>}, f \in {NoFile, OldBest, BrokenBest}}
\* Training for one epoch with a log interval of two batches and an epoch of
\* two batches more than MaxBatches.
RunsInterval ==
    {[args |-> [BaseArgs EXCEPT !.log_interval = 2, !.epochs = 1],
      corpus |-> [BaseCorpus EXCEPT !.train = MaxBatches + 2],
      inputs |-> ProfileLoss, files |-> NoFiles]}
Runs ==
    RunsSelect \cup RunsSync \cup RunsEmpty \cup RunsProf \cup RunsEval
        \cup RunsInterval

\* -------------------------------------------------------------- initial state
InitLocals ==
    /\ pc = [w \in Workers |-> "main"]
    /\ epoch = [w \in Workers |-> 0]
    /\ lr = [w \in Workers |-> args.lr]
    /\ best_val_ppl = [w \in Workers |-> None]
    /\ r_lr = [w \in Workers |-> args.lr]
    /\ r_best = [w \in Workers |-> None]
    /\ val_ppl = [w \in Workers |-> None]
    /\ saved_best = [w \in Workers |-> FALSE]
    /\ num_batch = [w \in Workers |-> 0]
    /\ total_loss = [w \in Workers |-> 0]
    /\ loss = [w \in Workers |-> 0]
    /\ cur_loss = [w \in Workers |-> None]
    /\ acc_losses = [w \in Workers |-> << >>]
    /\ calls = [w \in Workers |-> [train |-> 0, valid |-> 0, select |-> 0, test |-> 0]]
    /\ raw_grad = [w \in Workers |-> << >>]
    /\ emb_grad = [w \in Workers |-> << >>]
    /\ dense = [w \in Workers |-> InitDense]
    /\ pidx = [w \in Workers |-> 1]
    /\ held = [w \in Workers |-> None]
    /\ sync_log = [w \in Workers |-> << >>]
    /\ pre_sync = [w \in Workers |-> [p \in DenseNames |-> << >>]]
    /\ training = [w \in Workers |-> TRUE]
    /\ nce = [w \in Workers |-> args.nce]
    /\ entry_mode = [w \in Workers |-> << >>]
    /\ eval_src = [w \in Workers |-> "valid"]
    /\ test_ppl = [w \in Workers |-> None]
    /\ interrupted = [w \in Workers |-> FALSE]
    /\ err = [w \in Workers |-> ""]
    /\ loaded = [w \in Workers |-> NoFile]

\* The module body has run (lines 25-96); the W processes are about to
\* enter main().
Init ==
    /\ \E run \in Runs :
        /\ args = run.args
        /\ corpus = run.corpus
        /\ inputs = run.inputs
        /\ files = run.files
    /\ weight = InitWeight
    /\ InitLocals

\* --------------------------------------------------------------- call frames
\* The locals of train() and of run_epoch() exist only while the call runs;
\* when it returns or an exception unwinds it they are gone.
NoTrainFrame(w) ==
    /\ num_batch' = [num_batch EXCEPT ![w] = 0]
    /\ total_loss' = [total_loss EXCEPT ![w] = 0]
    /\ loss' = [loss EXCEPT ![w] = 0]
    /\ cur_loss' = [cur_loss EXCEPT ![w] = None]
    /\ acc_losses' = [acc_losses EXCEPT ![w] = << >>]
    /\ emb_grad' = [emb_grad EXCEPT ![w] = << >>]
    /\ pidx' = [pidx EXCEPT ![w] = 1]
NoEpochFrame(w) ==
    /\ r_lr' = [r_lr EXCEPT ![w] = None]
    /\ r_best' = [r_best EXCEPT ![w] = None]
    /\ val_ppl' = [val_ppl EXCEPT ![w] = None]
    /\ saved_best' = [saved_best EXCEPT ![w] = FALSE]
\* An exception leaves every frame below main().
Unwind(w) == NoTrainFrame(w) /\ NoEpochFrame(w)

\* -------------------------------------------------------------------- train
\* len(corpus.train): the corpus is built before the processes start
\* (lines 35-44), so every worker iterates the same number of batches.
TrainLen(w) == corpus.train

\* Line 112: batch k of the loop, or the end of the loop.
BatchPc(w, k) == IF k < TrainLen(w) THEN "forward" ELSE "after_train"

\* A plausible slip: the loop stops one epoch early.
EpochsLeftStrict(e) == e < args.epochs

\* Line 218: e is in range(1, args.epochs + 1).
EpochsLeft(e) == e <= args.epochs

\* Lines 218-219, 179 and 99-112: while epoch e is within args.epochs,
\* run_epoch(model, e, lr, best_val_ppl) is called with the given lr and
\* best_val_ppl, and it calls train(): a fresh optimizer, model.train(),
\* criterion.nce = args.nce, total_loss = 0, and the loop over the batches
\* starts.  After the last epoch main goes on to line 230.
EnterEpoch(w, e, cur_lr, cur_best) ==
    IF EpochsLeft(e)
    THEN /\ calls' = [calls EXCEPT ![w].train = @ + 1]
         /\ r_lr' = [r_lr EXCEPT ![w] = cur_lr]
         /\ r_best' = [r_best EXCEPT ![w] = cur_best]
         /\ val_ppl' = [val_ppl EXCEPT ![w] = None]
         /\ saved_best' = [saved_best EXCEPT ![w] = FALSE]
         /\ training' = [training EXCEPT ![w] = TRUE]
         /\ nce' = [nce EXCEPT ![w] = args.nce]
         /\ total_loss' = [total_loss EXCEPT ![w] = 0]
         /\ acc_losses' = [acc_losses EXCEPT ![w] = << >>]
         /\ cur_loss' = [cur_loss EXCEPT ![w] = None]
         /\ num_batch' = [num_batch EXCEPT ![w] = 0]
         /\ pc' = [pc EXCEPT ![w] = BatchPc(w, 0)]
    ELSE /\ NoEpochFrame(w)
         /\ pc' = [pc EXCEPT ![w] = "final"]
         /\ UNCHANGED <<training, nce, total_loss, acc_losses, cur_loss, num_batch,
                        calls>>

\* Lines 206-219 and 225: the process group, lr, best_val_ppl and the
\* branch on args.train: the first epoch, or the load of the best file.
MainStart(w) ==
    /\ pc[w] = "main"
    /\ lr' = [lr EXCEPT ![w] = args.lr]
    /\ best_val_ppl' = [best_val_ppl EXCEPT ![w] = None]
    /\ epoch' = [epoch EXCEPT ![w] = 1]
    /\ IF args.train
       THEN EnterEpoch(w, 1, args.lr, None)
       ELSE /\ pc' = [pc EXCEPT ![w] = "load"]
            /\ UNCHANGED <<r_lr, r_best, val_ppl, saved_best, training, nce,
                           total_loss, acc_losses, cur_loss, num_batch, calls>>
    /\ UNCHANGED <<cfgVars, weight, files, loss, raw_grad, emb_grad, syncVars,
                   entry_mode, evalVars, envVars>>

\* Lines 113-129: gradients cleared, forward and backward (outside this
\* program: the loss, the embedding gradient and the optimizer's step on the
\* dense parameters are whatever the network yields), clipping,
\* optimizer.step(); then coalesce, and the decay of the rows read from the
\* table is added to the gradient's values in place.
Forward(w) ==
    /\ pc[w] = "forward"
    /\ \E g \in inputs.grads, l \in inputs.losses, d \in inputs.steps :
        /\ raw_grad' = [raw_grad EXCEPT ![w] = g]
        /\ loss' = [loss EXCEPT ![w] = l]
        /\ dense' = [dense EXCEPT ![w] = [p \in DenseNames |-> dense[w][p] + d[p]]]
        /\ emb_grad' = [emb_grad EXCEPT ![w] =
                            AddDecay(Coalesce(g), weight, args.weight_decay)]
    /\ pc' = [pc EXCEPT ![w] = "index_add"]
    /\ UNCHANGED <<calls, cfgVars, weight, files, ctrlVars, num_batch, total_loss,
                   cur_loss, acc_losses, pidx, held, sync_log, pre_sync,
                   modeVars, evalVars, envVars>>

\* A plausible slip: the test num_batch > 0 is left out.
SyncDueNoGuard(k) == k % args.log_interval = 0

\* Line 138: num_batch % args.log_interval == 0 and num_batch > 0.
SyncDue(k) == k % args.log_interval = 0 /\ k > 0

\* Line 140, the call of all_reduce for parameter number i: the worker
\* hands in its tensor and blocks until every worker of the group has made
\* its matching call.
CallAllReduce(w, i) ==
    /\ pidx' = [pidx EXCEPT ![w] = i]
    /\ held' = [held EXCEPT ![w] = dense[w][dense_params[i]]]
    /\ sync_log' = [sync_log EXCEPT ![w] = Append(@, <<epoch[w], num_batch[w], i>>)]
    /\ pc' = [pc EXCEPT ![w] = "in_all_reduce"]

\* Lines 131-140: index_add_ of -lr * values and total_loss += loss; then
\* profiling breaks out of the loop, a due synchronisation makes its first
\* call, and otherwise the next batch follows.
SparseAdd(w) ==
    /\ pc[w] = "index_add"
    /\ weight' = IndexAdd(weight, emb_grad[w], -r_lr[w])
    /\ total_loss' = [total_loss EXCEPT ![w] = @ + loss[w]]
    /\ acc_losses' = [acc_losses EXCEPT ![w] = Append(@, loss[w])]
    /\ IF args.prof
       THEN /\ pc' = [pc EXCEPT ![w] = "after_train"]
            /\ UNCHANGED <<num_batch, pidx, held, sync_log>>
       ELSE IF SyncDue(num_batch[w])
       THEN /\ CallAllReduce(w, 1)
            /\ UNCHANGED num_batch
       ELSE /\ num_batch' = [num_batch EXCEPT ![w] = @ + 1]
            /\ pc' = [pc EXCEPT ![w] = BatchPc(w, num_batch[w] + 1)]
            /\ UNCHANGED <<pidx, held, sync_log>>
    /\ UNCHANGED <<calls, cfgVars, files, ctrlVars, loss, cur_loss, raw_grad, emb_grad,
                   dense, pre_sync, modeVars, evalVars, envVars>>

\* ---------------------------------------------------- dense synchronisation
RECURSIVE SumOver(_, _)
SumOver(f, S) ==
    IF S = {} THEN 0
    ELSE LET x == CHOOSE y \in S : TRUE IN f[x] + SumOver(f, S \ {x})

\* op = dist.reduce_op.SUM over the group.
ReduceSum(f) == SumOver(f, Workers)

\* Line 140, the return: once all W workers are in the call, each one's
\* tensor becomes the sum of the tensors handed in.
AllReduceDone ==
    /\ \A w \in Workers : pc[w] = "in_all_reduce"
    /\ dense' = [w \in Workers |->
                    [dense[w] EXCEPT ![dense_params[pidx[w]]] = ReduceSum(held)]]
    /\ pre_sync' = [w \in Workers |->
                    [pre_sync[w] EXCEPT ![dense_params[pidx[w]]] = held]]
    /\ pc' = [w \in Workers |-> "divide"]
    /\ UNCHANGED <<calls, cfgVars, weight, files, ctrlVars, trainVars, pidx, held,
                   sync_log, modeVars, evalVars, envVars>>

\* A plausible slip: the division is left out.
AverageForgotten(x) == x

\* Line 141: param.data /= dist.get_world_size().
Average(x) == DivInt(x, WORLD_SIZE)

\* Line 142: cur_loss = total_loss / args.log_interval.
IntervalLoss(t) == DivInt(t, args.log_interval)

\* Lines 141-152 and 139-140: the division; then the call for the next
\* parameter, or after the last one the interval's loss is reported,
\* total_loss is reset and the next batch follows.
Divide(w) ==
    /\ pc[w] = "divide"
    /\ dense' = [dense EXCEPT ![w][dense_params[pidx[w]]] = Average(@)]
    /\ IF pidx[w] < Len(dense_params)
       THEN /\ CallAllReduce(w, pidx[w] + 1)
            /\ UNCHANGED <<num_batch, total_loss, cur_loss, acc_losses>>
       ELSE /\ cur_loss' = [cur_loss EXCEPT ![w] = IntervalLoss(total_loss[w])]
            /\ total_loss' = [total_loss EXCEPT ![w] = 0]
            /\ acc_losses' = [acc_losses EXCEPT ![w] = << >>]
            /\ num_batch' = [num_batch EXCEPT ![w] = @ + 1]
            /\ pc' = [pc EXCEPT ![w] = BatchPc(w, num_batch[w] + 1)]
            /\ UNCHANGED <<pidx, held, sync_log>>
    /\ UNCHANGED <<calls, cfgVars, weight, files, ctrlVars, loss, raw_grad, emb_grad,
                   pre_sync, modeVars, evalVars, envVars>>

\* ----------------------------------------------------------------- evaluate
Stream(w) == IF eval_src[w] = "valid" THEN corpus.valid ELSE corpus.test
EvalLosses(w) ==
    IF eval_src[w] = "valid" THEN inputs.valid_losses ELSE inputs.test_losses

\* Lines 156-160: evaluate(model, corpus.<src>) is entered: model.eval(),
\* criterion.nce = False, the two sums zeroed.
EnterEvaluate(w, src) ==
    /\ eval_src' = [eval_src EXCEPT ![w] = src]
    /\ calls' = [calls EXCEPT ![w][src] = @ + 1]
    /\ entry_mode' = [entry_mode EXCEPT ![w] = <<training[w], nce[w]>>]
    /\ training' = [training EXCEPT ![w] = FALSE]
    /\ nce' = [nce EXCEPT ![w] = FALSE]
    /\ pc' = [pc EXCEPT ![w] = "eval_loop"]

\* Lines 180-182: train() has returned.  With args.prof run_epoch returns
\* None, which line 219 cannot unpack into three names (TypeError, not
\* caught by line 222); otherwise evaluate(model, corpus.valid) is entered.
EvalValid(w) ==
    /\ pc[w] = "after_train"
    /\ NoTrainFrame(w)
    /\ IF args.prof
       THEN /\ err' = [err EXCEPT ![w] = "TypeError"]
            /\ pc' = [pc EXCEPT ![w] = "crashed"]
            /\ NoEpochFrame(w)
            /\ UNCHANGED <<modeVars, eval_src, calls>>
       ELSE /\ EnterEvaluate(w, "valid")
            /\ UNCHANGED <<err, r_lr, r_best, val_ppl, saved_best>>
    /\ UNCHANGED <<cfgVars, weight, files, epoch, lr, best_val_ppl, raw_grad,
                   dense, held, sync_log, pre_sync, test_ppl, interrupted, loaded>>

RECURSIVE SumSeq(_)
SumSeq(q) == IF q = << >> THEN 0 ELSE Head(q) + SumSeq(Tail(q))

\* Lines 162-173 and the caller's assignment (182 or 232-234): every batch
\* adds loss * cur_length to eval_loss and cur_length to total_length (the
\* losses are whatever the network yields); then criterion.nce = True and
\* exp(eval_loss / total_length) is returned.  Dividing by a total_length
\* of 0 raises ZeroDivisionError, which nothing catches.
Evaluate(w) ==
    /\ pc[w] = "eval_loop"
    /\ nce' = [nce EXCEPT ![w] = TRUE]
    /\ \E ls \in [DOMAIN Stream(w) -> EvalLosses(w)] :
        LET total_length == SumSeq(Stream(w))
            eval_loss == SumSeq([k \in DOMAIN Stream(w) |-> ls[k] * Stream(w)[k]])
        IN  IF total_length = 0
            THEN /\ err' = [err EXCEPT ![w] = "ZeroDivisionError"]
                 /\ pc' = [pc EXCEPT ![w] = "crashed"]
                 /\ NoEpochFrame(w)
                 /\ UNCHANGED test_ppl
            ELSE IF eval_src[w] = "valid"
            THEN /\ val_ppl' = [val_ppl EXCEPT ![w] = Exp(DivInt(eval_loss, total_length))]
                 /\ pc' = [pc EXCEPT ![w] = "save_epoch"]
                 /\ UNCHANGED <<test_ppl, err, r_lr, r_best, saved_best>>
            ELSE /\ test_ppl' = [test_ppl EXCEPT ![w] = Exp(DivInt(eval_loss, total_length))]
                 /\ pc' = [pc EXCEPT ![w] = "done"]
                 /\ UNCHANGED <<val_ppl, err, r_lr, r_best, saved_best>>
    /\ UNCHANGED <<calls, cfgVars, weight, files, epoch, lr, best_val_ppl, trainVars,
                   syncVars, training, entry_mode, eval_src, interrupted, loaded>>

\* ---------------------------------------------------------------- run_epoch
\* A plausible slip: only the dense parameters are written.
SnapshotDenseOnly(w) ==
    [state |-> "complete", writer |-> w, epoch |-> epoch[w], ppl |-> val_ppl[w],
     weight |-> << >>, dense |-> dense[w], training |-> training[w],
     nce |-> nce[w]]

\* torch.save(model, f): the whole model as the process holds it.
Snapshot(w) ==
    [state |-> "complete", writer |-> w, epoch |-> epoch[w], ppl |-> val_ppl[w],
     weight |-> weight, dense |-> dense[w], training |-> training[w],
     nce |-> nce[w]]

\* Line 190: open(args.save + '.epoch_<epoch>', 'wb') creates or truncates.
SaveEpochOpen(w) ==
    /\ pc[w] = "save_epoch"
    /\ files' = [files EXCEPT ![EpochPath(epoch[w])] = Truncated(w, epoch[w])]
    /\ pc' = [pc EXCEPT ![w] = "save_epoch_write"]
    /\ UNCHANGED <<calls, cfgVars, weight, ctrlVars, trainVars, syncVars, modeVars,
                   evalVars, envVars>>

\* Python's `not x` on None or a number.
Falsy(x) == x = None \/ x = 0

\* A plausible slip: the comparison is turned round.
ImprovedFlipped(best, val) == Falsy(best) \/ val > best

\* Line 193: not best_val_ppl or val_ppl < best_val_ppl.
Improved(best, val) == Falsy(best) \/ val < best

\* A plausible slip: the rate is multiplied.
AnnealMultiplied(x) == Mul(x, args.lr_decay)

\* Line 200: lr /= args.lr_decay.
Anneal(x) == FDiv(x, args.lr_decay)

\* Lines 191, 193 and 200: torch.save(model, f) and the file is closed;
\* then the branch, and without improvement the rate is annealed.
SaveEpochWrite(w) ==
    /\ pc[w] = "save_epoch_write"
    /\ files' = [files EXCEPT ![EpochPath(epoch[w])] = Snapshot(w)]
    /\ calls' = [calls EXCEPT ![w].select = @ + 1]
    /\ IF Improved(r_best[w], val_ppl[w])
       THEN /\ pc' = [pc EXCEPT ![w] = "save_best"]
            /\ UNCHANGED r_lr
       ELSE /\ r_lr' = [r_lr EXCEPT ![w] = Anneal(@)]
            /\ pc' = [pc EXCEPT ![w] = "return"]
    /\ UNCHANGED <<cfgVars, weight, epoch, lr, best_val_ppl, r_best, val_ppl,
                   saved_best, trainVars, syncVars, modeVars, evalVars, envVars>>

\* Line 194: open(args.save, 'wb') creates or truncates the best file.
SaveBestOpen(w) ==
    /\ pc[w] = "save_best"
    /\ files' = [files EXCEPT ![BestPath] = Truncated(w, epoch[w])]
    /\ pc' = [pc EXCEPT ![w] = "save_best_write"]
    /\ UNCHANGED <<calls, cfgVars, weight, ctrlVars, trainVars, syncVars, modeVars,
                   evalVars, envVars>>

\* Lines 195-196: torch.save(model, f), the file is closed, and
\* best_val_ppl = val_ppl.
SaveBestWrite(w) ==
    /\ pc[w] = "save_best_write"
    /\ files' = [files EXCEPT ![BestPath] = Snapshot(w)]
    /\ r_best' = [r_best EXCEPT ![w] = val_ppl[w]]
    /\ saved_best' = [saved_best EXCEPT ![w] = TRUE]
    /\ pc' = [pc EXCEPT ![w] = "return"]
    /\ UNCHANGED <<calls, cfgVars, weight, epoch, lr, best_val_ppl, r_lr, val_ppl,
                   trainVars, syncVars, modeVars, evalVars, envVars>>

\* Lines 201 and 218-221: run_epoch returns, main takes over lr and
\* best_val_ppl, and the loop goes on to the next epoch.
Return(w) ==
    /\ pc[w] = "return"
    /\ lr' = [lr EXCEPT ![w] = r_lr[w]]
    /\ best_val_ppl' = [best_val_ppl EXCEPT ![w] = r_best[w]]
    /\ epoch' = [epoch EXCEPT ![w] = @ + 1]
    /\ EnterEpoch(w, epoch[w] + 1, r_lr[w], r_best[w])
    /\ UNCHANGED <<cfgVars, weight, files, loss, raw_grad, emb_grad, syncVars,
                   entry_mode, evalVars, envVars>>

\* ------------------------------------------------------ the end of main()
\* A plausible slip: whatever is at the best path is taken as the model.
LoadUnchecked(w) ==
    /\ pc[w] = "load"
    /\ loaded' = [loaded EXCEPT ![w] = files[BestPath]]
    /\ pc' = [pc EXCEPT ![w] = "final"]
    /\ UNCHANGED <<calls, cfgVars, weight, files, ctrlVars, trainVars, syncVars,
                   modeVars, evalVars, interrupted, err>>

\* Lines 227-228: the best file is read; open() of a missing file raises
\* FileNotFoundError, torch.load of a file cut short raises EOFError, and
\* nothing catches either.
Load(w) ==
    /\ pc[w] = "load"
    /\ IF files[BestPath].state = "complete"
       THEN /\ loaded' = [loaded EXCEPT ![w] = files[BestPath]]
            /\ dense' = [dense EXCEPT ![w] = files[BestPath].dense]
            /\ training' = [training EXCEPT ![w] = files[BestPath].training]
            /\ nce' = [nce EXCEPT ![w] = files[BestPath].nce]
            /\ pc' = [pc EXCEPT ![w] = "final"]
            /\ UNCHANGED err
       ELSE /\ err' = [err EXCEPT ![w] =
                        IF files[BestPath].state = "absent"
                        THEN "FileNotFoundError" ELSE "EOFError"]
            /\ pc' = [pc EXCEPT ![w] = "crashed"]
            /\ UNCHANGED <<loaded, dense, training, nce>>
    /\ UNCHANGED <<calls, cfgVars, weight, files, ctrlVars, trainVars, pidx, held,
                   sync_log, pre_sync, entry_mode, evalVars, interrupted>>

\* A plausible slip: main ends without the test evaluation.
FinalNoTest(w) ==
    /\ pc[w] = "final"
    /\ pc' = [pc EXCEPT ![w] = "done"]
    /\ UNCHANGED <<calls, cfgVars, weight, files, ctrlVars, trainVars, syncVars,
                   modeVars, evalVars, envVars>>

\* Lines 230-232: unless profiling, evaluate(model, corpus.test) is entered.
Final(w) ==
    /\ pc[w] = "final"
    /\ IF args.prof
       THEN /\ pc' = [pc EXCEPT ![w] = "done"]
            /\ UNCHANGED <<modeVars, eval_src, calls>>
       ELSE EnterEvaluate(w, "test")
    /\ UNCHANGED <<cfgVars, weight, files, ctrlVars, trainVars, syncVars,
                   test_ppl, envVars>>

\* -------------------------------------------------------------- environment
\* The positions inside the try block of lines 217-221 at which Python can
\* deliver a signal (a worker blocked inside the collective is not one).
TryPcs ==
    {"forward", "index_add", "divide", "after_train", "save_epoch",
     "save_epoch_write", "save_best", "save_best_write", "return"}
InTry(w) ==
    \/ pc[w] \in TryPcs
    \/ pc[w] = "eval_loop" /\ eval_src[w] = "valid"
\* The interrupts and failed writes so far.
Faults == Cardinality({w \in Workers : interrupted[w] \/ err[w] = "OSError"})

\* Lines 222-223: a KeyboardInterrupt raised inside the try block is caught,
\* logged, and main goes on to line 230.  An open file is closed as it is.
Interrupt(w) ==
    /\ InTry(w)
    /\ Faults < MaxFaults
    /\ interrupted' = [interrupted EXCEPT ![w] = TRUE]
    /\ Unwind(w)
    /\ pc' = [pc EXCEPT ![w] = "final"]
    /\ UNCHANGED <<calls, cfgVars, weight, files, epoch, lr, best_val_ppl, raw_grad,
                   dense, held, sync_log, pre_sync, modeVars, evalVars, err,
                   loaded>>

\* Lines 190-191 and 194-195: open() or torch.save() raises OSError (no
\* space, no permission); nothing catches it.  A file already opened stays truncated.
SaveFails(w) ==
    /\ pc[w] \in {"save_epoch", "save_epoch_write", "save_best", "save_best_write"}
    /\ Faults < MaxFaults
    /\ err' = [err EXCEPT ![w] = "OSError"]
    /\ Unwind(w)
    /\ pc' = [pc EXCEPT ![w] = "crashed"]
    /\ UNCHANGED <<calls, cfgVars, weight, files, epoch, lr, best_val_ppl, raw_grad,
                   dense, held, sync_log, pre_sync, modeVars, evalVars,
                   interrupted, loaded>>

\* ------------------------------------------------------------ specification
\* Lines 236-243: the W processes run main() side by side.
Next ==
    \/ \E w \in Workers :
        \/ MainStart(w) \/ Forward(w) \/ SparseAdd(w) \/ Divide(w)
        \/ EvalValid(w) \/ Evaluate(w)
        \/ SaveEpochOpen(w) \/ SaveEpochWrite(w)
        \/ SaveBestOpen(w) \/ SaveBestWrite(w) \/ Return(w)
        \/ Load(w) \/ Final(w) \/ Interrupt(w) \/ SaveFails(w)
    \/ AllReduceDone

Spec == Init /\ [][Next]_vars

\* What worker w does next when nothing comes from outside.
Step(w) ==
    \/ MainStart(w) \/ Forward(w) \/ SparseAdd(w) \/ Divide(w)
    \/ EvalValid(w) \/ Evaluate(w)
    \/ SaveEpochOpen(w) \/ SaveEpochWrite(w)
    \/ SaveBestOpen(w) \/ SaveBestWrite(w) \/ Return(w)
    \/ Load(w) \/ Final(w)

\* Lines 236-243 under a fair scheduler: each process started by p.start()
\* keeps running while it has a step to take, and a collective that every
\* worker has entered completes.  Interrupts and failed writes may or may
\* not happen.
FairSpec ==
    /\ Spec
    /\ \A w \in Workers : WF_vars(Step(w))
    /\ WF_vars(AllReduceDone)

\* ------------------------------------------- one sparse update on its own
\* Lines 113-131 for one batch of one worker, from any table of RowVecs
\* rows, any gradient of AllGrads, any rate of LrVals and decay of WdVals;
\* the other worker has not started.
UpdateWorker == CHOOSE w \in Workers : \A v \in Workers : w <= v
InitUpdate ==
    /\ \E l \in LrVals, d \in WdVals :
        args = [BaseArgs EXCEPT !.epochs = 1, !.lr = l, !.weight_decay = d]
    /\ corpus = [BaseCorpus EXCEPT !.train = 1]
    /\ \E g \in AllGrads : inputs = [ProfileEval EXCEPT !.grads = {g}]
    /\ files = NoFiles
    /\ weight \in [Vocab -> RowVecs]
    /\ InitLocals

NextUpdate ==
    \/ MainStart(UpdateWorker)
    \/ Forward(UpdateWorker)
    \/ SparseAdd(UpdateWorker)

SpecUpdate == InitUpdate /\ [][NextUpdate]_vars

\* ================================================================ properties
\* The step of worker w that applies its sparse update (line 131).
UpdateStep(w) ==
    /\ pc[w] = "index_add"
    /\ pc'[w] \in {"forward", "after_train", "in_all_reduce"}

\* The row the contract of the sparse update prescribes for a touched index:
\* row - lr * (sum of the raw gradients of i + weight_decay * row).
MergedRow(row, g, i, rate, wd) ==
    [k \in Dims |-> row[k] - Mul(rate, SumFor(g, i)[k] + Mul(wd, row[k]))]

\* C1: a sparse update leaves every row whose index is not among the touched
\* indices of the batch exactly as it was: no step and no decay reaches it.
TheoremC1 ==
    [][\A w \in Workers :
          UpdateStep(w) =>
              \A i \in Vocab \ Indices(raw_grad[w]) : weight'[i] = weight[i]]_vars

\* C1: the update of the batch 3, 7, 3 with decay 0.01 has been applied to a
\* table whose untouched row 9 is not the row of ones, and row 9 is as before
\* while row 7 has moved.
WitnessC1 ==
    /\ pc[UpdateWorker] = "after_train"
    /\ raw_grad[UpdateWorker] = ExampleGrad
    /\ args.weight_decay = Scale \div 100
    /\ weight[9] = Ramp(3 * (Scale \div 10))
    /\ weight[7] = MergedRow(Vec(Scale), ExampleGrad, 7, args.lr, args.weight_decay)

\* C2: a sparse update gives every touched index i, duplicated in the batch
\* or not, the row row[i] - lr * (sum of the raw gradients of i +
\* weight_decay * row[i]): gradients summed first, decay applied once.  With
\* indices 3, 7, 3, gradients 0.1, 0.2, 0.05, decay 0.01, rate 0.5 and row 3
\* all ones, row 3 becomes 0.92 in every component.
TheoremC2 ==
    [][\A w \in Workers :
          UpdateStep(w) =>
              /\ \A i \in Indices(raw_grad[w]) :
                    weight'[i] = MergedRow(weight[i], raw_grad[w], i, r_lr[w],
                                           args.weight_decay)
              /\ ( /\ raw_grad[w] = ExampleGrad
                   /\ args.weight_decay = Scale \div 100
                   /\ r_lr[w] = Scale \div 2
                   /\ weight[3] = Vec(Scale) )
                 => weight'[3] = Vec(92 * (Scale \div 100))]_vars

\* C2: the worked example has been applied: row 3, touched twice, holds 0.92.
WitnessC2 ==
    /\ pc[UpdateWorker] = "after_train"
    /\ raw_grad[UpdateWorker] = ExampleGrad
    /\ args.weight_decay = Scale \div 100
    /\ args.lr = Scale \div 2
    /\ weight[3] = Vec(92 * (Scale \div 100))

\* Worker w has finished the synchronisation of dense parameter number i and
\* has not run the optimizer since: it is at a later parameter of the same
\* round, or the round is over and the next batch has not started.
Synced(w, i) ==
    /\ sync_log[w] # << >>
    /\ \/ pc[w] \in {"in_all_reduce", "divide"} /\ pidx[w] > i
       \/ /\ pc[w] \in {"forward", "after_train"}
          /\ epoch[w] = sync_log[w][Len(sync_log[w])][1]
          /\ num_batch[w] = sync_log[w][Len(sync_log[w])][2] + 1

\* The arithmetic mean of the values the W workers handed in.
MeanOf(f) == DivInt(SumOver(f, Workers), WORLD_SIZE)

\* C3: after a synchronisation every worker holds, for every dense
\* parameter, the mean of the W values the workers held just before it, and
\* all workers that have finished it hold the same value.
TheoremC3 ==
    \A w \in Workers : \A i \in DOMAIN dense_params :
        Synced(w, i) =>
            /\ dense[w][dense_params[i]] = MeanOf(pre_sync[w][dense_params[i]])
            /\ \A v \in Workers :
                  Synced(v, i) => dense[v][dense_params[i]] = dense[w][dense_params[i]]

\* C3: worker 0 came with 10.0 and worker 1 with 20.0, and after the
\* synchronisation both hold 15.0.
WitnessC3 ==
    \A w \in Workers :
        /\ Synced(w, 1)
        /\ pre_sync[w][dense_params[1]] = [v \in Workers |-> (10 + 10 * v) * Scale]
        /\ dense[w][dense_params[1]] = 15 * Scale

\* The step in which run_epoch returns to main (lines 201 and 219).
EpochDone(w) == pc[w] = "return" /\ epoch'[w] = epoch[w] + 1

\* C5: when an epoch is completed, if there is a prior best and val_ppl is
\* not below it, the rate is divided by lr_decay and the best is unchanged;
\* otherwise the rate is unchanged, the best becomes val_ppl and the best
\* checkpoint was written in this epoch.
TheoremC5 ==
    [][\A w \in Workers :
          EpochDone(w) =>
              IF best_val_ppl[w] # None /\ val_ppl[w] >= best_val_ppl[w]
              THEN /\ lr'[w] = FDiv(lr[w], args.lr_decay)
                   /\ best_val_ppl'[w] = best_val_ppl[w]
                   /\ ~saved_best[w]
              ELSE /\ lr'[w] = lr[w]
                   /\ best_val_ppl'[w] = val_ppl[w]
                   /\ saved_best[w]]_vars

\* C5: a worker has completed its epochs: one was accepted as the best, a
\* later one did not improve on it and the rate was annealed.
WitnessC5 ==
    \E w \in Workers :
        /\ pc[w] = "final"
        /\ ~interrupted[w]
        /\ epoch[w] > 2
        /\ lr[w] = FDiv(args.lr, args.lr_decay)
        /\ best_val_ppl[w] = Exp(Scale)

\* C6: from one step of a worker to the next, and so from one epoch
\* boundary to the next, a best validation perplexity that is set stays set
\* and does not increase, and the learning rate does not increase.
TheoremC6 ==
    [][\A w \in Workers :
          /\ best_val_ppl[w] # None =>
                best_val_ppl'[w] # None /\ best_val_ppl'[w] <= best_val_ppl[w]
          /\ lr'[w] <= lr[w]]_vars

\* C6: one worker is about to lower its best at an epoch boundary, another
\* is about to lower its rate.
WitnessC6 ==
    \E w, v \in Workers :
        /\ pc[w] = "return" /\ best_val_ppl[w] # None /\ r_best[w] < best_val_ppl[w]
        /\ pc[v] = "return" /\ best_val_ppl[v] # None /\ r_lr[v] < lr[v]

\* Worker v has left the training loop for good: it will make no further
\* call of all_reduce.
LeftTraining(v) ==
    \/ pc[v] \in {"final", "done", "crashed"}
    \/ pc[v] = "eval_loop" /\ eval_src[v] = "test"

IsPrefix(s, t) == Len(s) <= Len(t) /\ SubSeq(t, 1, Len(s)) = s

\* C4: in every run the workers call the collective reduction at the same
\* (epoch, step) positions, the same number of times, and no worker is
\* blocked in a call that another worker will never join.
ClaimC4 ==
    \A w, v \in Workers :
        /\ IsPrefix(sync_log[w], sync_log[v]) \/ IsPrefix(sync_log[v], sync_log[w])
        /\ LeftTraining(w) /\ LeftTraining(v) => sync_log[w] = sync_log[v]
        /\ pc[w] = "in_all_reduce" => ~LeftTraining(v)

\* C7: an epoch that is completed has its checkpoint at the epoch's path
\* whichever branch was taken, and a per-epoch checkpoint that has been
\* written is not changed by any later write of any worker.
ClaimC7 ==
    [][/\ \A w \in Workers :
            pc[w] = "save_epoch_write" /\ pc'[w] \in {"save_best", "return"}
                => files'[EpochPath(epoch[w])].state = "complete"
       /\ \A n \in 1 .. MaxEpochs :
            files[EpochPath(n)].state = "complete"
                => files'[EpochPath(n)] = files[EpochPath(n)]]_vars

\* C8: also after a failed or interrupted write, the best file a worker has
\* written is whole, and it holds the snapshot of the perplexity the worker
\* keeps as its best.
ClaimC8 ==
    \A w \in Workers :
        LeftTraining(w) /\ files[BestPath].writer = w
            => /\ files[BestPath].state = "complete"
               /\ files[BestPath].ppl = best_val_ppl[w]

\* C9: whenever evaluate() has been left, by return or by an exception or
\* interrupt, the training flag and the nce flag are what they were when it
\* was entered.
ClaimC9 ==
    [][\A w \in Workers :
          pc[w] = "eval_loop" /\ pc'[w] # "eval_loop"
              => <<training'[w], nce'[w]>> = entry_mode[w]]_vars

\* C10: evaluate() on a stream of no tokens ends in an error, yields no
\* perplexity, and the model's training flag is as it was on entry.
ClaimC10 ==
    \A w \in Workers :
        err[w] = "ZeroDivisionError"
            => /\ pc[w] = "crashed"
               /\ IF eval_src[w] = "valid" THEN val_ppl[w] = None
                                           ELSE test_ppl[w] = None
               /\ training[w] = entry_mode[w][1]

TestRuns == ~args.prof /\ SumSeq(corpus.test) > 0

ClaimC12 ==
    [][\A w \in Workers :
          /\ (\E i \in Vocab : weight'[i] # weight[i]) => UpdateStep(w)
          /\ pc[w] = "index_add" =>
                emb_grad[w] = AddDecay(Coalesce(raw_grad[w]), weight,
                                       args.weight_decay)]_vars

\* C13: in evaluate-only mode with the best file missing or not readable, a
\* worker that has got past the load has ended with the load's error, and it
\* never enters the test evaluation and never has a test perplexity.
TheoremC13 ==
    \A w \in Workers :
        ~args.train /\ files[BestPath].state # "complete"
            => /\ pc[w] \in {"main", "load", "crashed"}
               /\ pc[w] = "crashed" => err[w] \in {"FileNotFoundError", "EOFError"}
               /\ entry_mode[w] = << >>
               /\ test_ppl[w] = None

\* C13: both workers of an evaluate-only run have ended in the error, on a
\* best file that was cut short.
WitnessC13 ==
    /\ ~args.train
    /\ \A w \in Workers : pc[w] = "crashed" /\ test_ppl[w] = None
    /\ \E w \in Workers : err[w] = "EOFError"

\* Line 228: the parameters of the model torch.load builds from a file.
LoadedParams(f) == [weight |-> f.weight, dense |-> f.dense]

\* Lines 225-232: the parameters of the model that main hands to
\* evaluate(model, corpus.test): after training the model in memory (the
\* shared table and the worker's dense parameters), in evaluate-only mode
\* the model read by torch.load.
EvaluatedParams(w) ==
    IF args.train
    THEN [weight |-> weight, dense |-> dense[w]]
    ELSE LoadedParams(loaded[w])

\* No worker has been interrupted or has raised an exception.
Undisturbed == \A v \in Workers : ~interrupted[v] /\ err[v] = ""

\* C14: when a worker runs the test evaluation (here: in an undisturbed
\* run, with the best file being the one it loaded or wrote last), the
\* parameters it evaluates are those of the best checkpoint.
ClaimC14 ==
    \A w \in Workers :
        ( /\ pc[w] = "eval_loop" /\ eval_src[w] = "test"
          /\ Undisturbed
          /\ files[BestPath].writer \in {w, None} )
            => /\ files[BestPath].state = "complete"
               /\ EvaluatedParams(w) = [weight |-> files[BestPath].weight,
                                        dense |-> files[BestPath].dense]

\* Line 166 in evaluation mode with nce off: the loss of a batch is a fixed
\* function of the model's parameters.  The network is not part of main.py;
\* this stand-in depends on every dense parameter and every row.
NetLoss(p) ==
    ( Abs(SumOver(p.dense, DOMAIN p.dense))
      + Abs(SumOver([i \in DOMAIN p.weight |-> SumOver(p.weight[i], Dims)],
                    DOMAIN p.weight)) ) % (4 * Scale)

\* Lines 159-173 for a model of parameters p on a stream with tokens.
PplOf(p, stream) ==
    Exp(DivInt(SumSeq([k \in DOMAIN stream |-> NetLoss(p) * stream[k]]),
               SumSeq(stream)))

\* The step in which worker w finishes torch.save at the given path.
Saved(w, path) ==
    \/ /\ path = EpochPath(epoch[w])
       /\ pc[w] = "save_epoch_write" /\ pc'[w] \in {"save_best", "return"}
    \/ /\ path = BestPath
       /\ pc[w] = "save_best_write" /\ pc'[w] = "return"

SyncCalls(w, e) ==
    {j \in DOMAIN sync_log[w] : sync_log[w][j][1] = e /\ sync_log[w][j][3] = 1}
\* The batches (values of num_batch) at which they were made.
SyncBatches(w, e) == {sync_log[w][j][2] : j \in SyncCalls(w, e)}

\* Worker w is between two batches of train(), or past the last one:
\* num_batch[w] optimizer steps of the epoch are done.
BetweenBatches(w) == pc[w] \in {"forward", "after_train"}

\* The batches among the first n of an epoch at which a synchronisation is
\* prescribed: k > 0 and k mod log_interval = 0.
DueBatches(n) == {k \in 0 .. (n - 1) : k > 0 /\ k % args.log_interval = 0}

\* C16: within an epoch the synchronisation runs exactly at the batches k
\* with k > 0 and k mod log_interval = 0, once each, so that after n
\* optimizer steps of the epoch there have been n div log_interval
\* synchronisations.
ClaimC16 ==
    \A w \in Workers :
        BetweenBatches(w) =>
            /\ SyncBatches(w, epoch[w]) = DueBatches(num_batch[w])
            /\ Cardinality(SyncCalls(w, epoch[w])) = Cardinality(DueBatches(num_batch[w]))
            /\ Cardinality(SyncCalls(w, epoch[w])) = num_batch[w] \div args.log_interval

\* C16, with the count as the code has it: within an epoch the
\* synchronisation runs exactly at the batches k with k > 0 and
\* k mod log_interval = 0, once each; the first one comes after
\* log_interval + 1 optimizer steps, so after n >= 1 steps there have been
\* (n - 1) div log_interval synchronisations.
TheoremC16 ==
    \A w \in Workers :
        BetweenBatches(w) =>
            /\ SyncBatches(w, epoch[w]) = DueBatches(num_batch[w])
            /\ Cardinality(SyncCalls(w, epoch[w])) = Cardinality(DueBatches(num_batch[w]))
            /\ Cardinality(SyncCalls(w, epoch[w])) =
                    IF num_batch[w] = 0 THEN 0
                    ELSE (num_batch[w] - 1) \div args.log_interval

\* C16: with a log interval of 2 a worker has done four batches of an epoch
\* and has synchronised once, at batch 2.
WitnessC16 ==
    \E w \in Workers :
        /\ args.log_interval = 2
        /\ pc[w] = "after_train"
        /\ num_batch[w] = 4
        /\ SyncBatches(w, epoch[w]) = {2}

\* The step of worker w that ends a synchronisation: the interval's loss is
\* reported and the accumulator reset (lines 142-152).
Reported(w) ==
    /\ pc[w] = "divide" /\ pidx[w] = Len(dense_params)
    /\ pc'[w] \in {"forward", "after_train"}

\* C17: at every synchronisation the loss reported is the mean of the losses
\* of the batches accumulated since the last reset, and the accumulator is
\* zero right after it.
ClaimC17 ==
    [][\A w \in Workers :
          Reported(w) =>
              /\ cur_loss'[w] = DivInt(SumSeq(acc_losses[w]), Len(acc_losses[w]))
              /\ total_loss'[w] = 0]_vars

\* No worker has been interrupted and no write has failed.
Quiet == \A v \in Workers : ~interrupted[v] /\ err[v] # "OSError"

\* What a worker that ran the whole of a training run has called.
FullRun == [train |-> args.epochs, valid |-> args.epochs,
            select |-> args.epochs, test |-> 1]

\* C18: with no interrupt and no failed write a worker in training mode
\* does not crash, never runs the test evaluation twice, and when it has
\* terminated it has run exactly `epochs` epochs (one train, one validation
\* evaluate, one selection each) and one test evaluation.
ClaimC18 ==
    \A w \in Workers :
        args.train /\ Quiet
            => /\ pc[w] # "crashed"
               /\ calls[w].test <= 1
               /\ pc[w] = "done" => calls[w] = FullRun

\* The run trains, is not a profiling run, and its validation and test
\* streams have tokens.
PlainTraining ==
    /\ args.train /\ ~args.prof
    /\ SumSeq(corpus.valid) > 0 /\ SumSeq(corpus.test) > 0

\* C18, for training runs that are not profiling runs and whose validation
\* and test streams have tokens: under fair scheduling, with no interrupt
\* and no failed write, a worker does not crash, never runs the test
\* evaluation twice, eventually terminates, and has then run exactly
\* `epochs` epochs (one train, one validation evaluate, one selection each)
\* and one test evaluation.
TheoremC18 ==
    /\ [](\A w \in Workers :
            PlainTraining /\ Quiet
                => /\ pc[w] # "crashed"
                   /\ calls[w].test <= 1
                   /\ pc[w] = "done" => calls[w] = FullRun)
    /\ \A w \in Workers : <>(~PlainTraining \/ ~Quiet \/ pc[w] = "done")

\* C18: both workers of an undisturbed run of two epochs have terminated.
WitnessC18 ==
    /\ PlainTraining /\ Quiet
    /\ args.epochs = 2
    /\ \A w \in Workers : pc[w] = "done" /\ calls[w] = FullRun

\* The best validation perplexity worker v holds: inside run_epoch its
\* parameter, otherwise main's variable.
HeldBest(v) == IF r_best[v] # None THEN r_best[v] ELSE best_val_ppl[v]

\* C19: a worker that opens the best path for writing never replaces a
\* whole snapshot of lower validation perplexity, and at an epoch boundary
\* the snapshot at the best path has a perplexity no greater than the best
\* any worker holds.
ClaimC19 ==
    [][\A w \in Workers :
          /\ ( /\ pc[w] = "save_best" /\ pc'[w] = "save_best_write"
               /\ files[BestPath].state = "complete" )
                => val_ppl[w] <= files[BestPath].ppl
          /\ ( /\ pc[w] = "return" /\ Undisturbed
               /\ files[BestPath].state = "complete" )
                => \A v \in Workers :
                      HeldBest(v) # None => files[BestPath].ppl <= HeldBest(v)]_vars

\* C20: in a profiling run every worker makes at most one optimizer step, in
\* one call of train(), calls all_reduce and evaluate() never, leaves the
\* checkpoint files alone, and raises no error.
ClaimC20 ==
    args.train /\ args.prof
        => \A w \in Workers :
              /\ calls[w].train <= 1 /\ Len(acc_losses[w]) <= 1
              /\ epoch[w] <= 1 /\ num_batch[w] <= 0
              /\ sync_log[w] = << >>
              /\ calls[w].valid = 0 /\ calls[w].test = 0 /\ calls[w].select = 0
              /\ files = NoFiles
              /\ err[w] = "" /\ pc[w] # "crashed"

====
